---- MODULE Spec2Model ----
(***************************************************************************)
(* AMQ-SRS Trainer: the AniList -> AnimeThemes import pipeline, its        *)
(* retrying JSON client and its card store.                                *)
(*                                                                         *)
(*   src/unnamed/part_000  single-file component with the incremental      *)
(*                         import (buildDeckFromAniList)                   *)
(*   src/src/App.jsx       later component with the one-shot import        *)
(*                         (importAnilist)                                 *)
(*                                                                         *)
(* Specifications:                                                         *)
(*   Spec       buildDeckFromAniList of part_000 and the events around it  *)
(*   SpecApp    importAnilist of App.jsx                                   *)
(*   SpecFetch  one call of fetchJSON against an arbitrary remote          *)
(*   SpecSolo   the first import of a session alone, long catalogs and the *)
(*              stored maxShows; SpecSoloFair adds the fairness of the     *)
(*              list fetch                                                 *)
(*   SpecSrs    sm2Schedule of both files applied grade after grade        *)
(*   SpecClear  imports of part_000 one after the other, and clearCache    *)
(*   SpecIds    the card ids of both imports over lists that change        *)
(*   SpecGrade  the grade handler of App.jsx and its next-card timer       *)
(*   SpecEase   the four-grade policy of part_000 over long grade runs      *)
(*   SpecDedupe dedupeById on lists with repeated ids                       *)
(*   SpecSave   saveCards of App.jsx with and without its purge             *)
(*   SpecStore  App.jsx: import, grade, undo and reset on one store         *)
(*                                                                         *)
(* An async function is cut at its awaits: one action runs from one await  *)
(* to the next.  A React state setter takes effect in the step that calls  *)
(* it, and the effect that mirrors the state to localStorage with it.  A   *)
(* function of the component reads the state of the render that created    *)
(* it: an import run keeps the `cache` it was started with.                *)
(***************************************************************************)
EXTENDS Integers, Sequences, FiniteSets, TLC

VARIABLES
    \* ---- component state (useState / useRef) ----
    cards,            \* cards: sequence of Card
    cache,            \* cache: anilistId -> openings[]
    loading,          \* loading
    error,            \* error
    progress,         \* progress: {totalShows, processedShows, totalOps}
    idsRef,           \* idsRef.current: set of card ids
    cancelImportRef,  \* cancelImportRef.current
    \* ---- localStorage ----
    storedCards,      \* STORAGE_CARDS
    storedCache,      \* STORAGE_CACHE
    \* ---- the remote services ----
    remote,           \* number of entries of the user's AniList list
    \* ---- invocations of the import function ----
    pc,               \* per invocation: the await it is suspended at
    run,              \* per invocation: its locals and the render it closed over
    \* ---- one call of fetchJSON ----
    fpc, attempt, backoff, lastStatus, nreq, nsleep,
    lastHeader,       \* the Retry-After header of the response being slept on
    \* ---- settings (useState, read from STORAGE_SETTINGS) ----
    maxShows,         \* maxShows
    easyDelayHours,   \* easyDelayHours (App.jsx)
    diffAgain,        \* diffAgain (App.jsx)
    \* ---- the review of one card ----
    app,              \* the component that is running: "part_000" or "App.jsx"
    srs,              \* the schedule state of the card under review
    now,              \* Date.now() as read by the last call of sm2Schedule
    hist,             \* the grades given to the card so far
    start,            \* the schedule state the card had before the first grade
    \* ---- the deck on screen ----
    catalog,          \* the media ids of the user's list, in the order of the response
    currentCard,      \* currentCard (App.jsx): the card on screen, as the render that chose it saw it
    timers,           \* pending setTimeout callbacks of grade (App.jsx), each with the deck it closed over
    \* ---- the schedule map and the call of a helper ----
    srsById,          \* srs (App.jsx): card id -> schedule state, over the whole deck
    storedSrs,        \* STORAGE_KEY
    lastGrade,        \* lastGrade (App.jsx): {id, prevSrs} of the last grade, null after an undo
    arg               \* the arguments of the last call of the helper under study

uiVars    == <<cards, cache, loading, error, progress, idsRef, cancelImportRef>>
storeVars == <<storedCards, storedCache>>
runVars   == <<pc, run>>
fetchVars == <<fpc, attempt, backoff, lastStatus, nreq, nsleep, lastHeader>>
settingVars == <<maxShows, easyDelayHours, diffAgain>>
srsVars   == <<app, srs, now, hist, start>>
deckVars  == <<catalog, currentCard, timers>>
reviewVars == <<srsById, storedSrs, lastGrade, arg>>
vars      == <<uiVars, storeVars, remote, runVars, fetchVars, settingVars, srsVars, deckVars, reviewVars>>

(***************************************************************************)
(* Tunables of the source                                                  *)
(***************************************************************************)
MAX_RETRIES == 6
JITTER_MS == 120
DEFAULT_MAX_SHOWS == 250
MIN_SHOWS == 10
APP_DEFAULT_MAX_SHOWS == 1000
MAX_CARDS_PER_SERIES == 5
DEFAULT_EASY_DELAY_HOURS == 48

(***************************************************************************)
(* Bounds of the model                                                     *)
(***************************************************************************)
MaxAnime == 2
RemotePageSize == 1
MaxRuns == 2

Runs == 1..MaxRuns

Min(a, b) == IF a < b THEN a ELSE b
Max(a, b) == IF a > b THEN a ELSE b
Front(s) == SubSeq(s, 1, Len(s) - 1)

(***************************************************************************)
(* The remote services.  The list service holds the entries 1..remote of   *)
(* the user and serves them RemotePageSize to a page; the theme index      *)
(* answers a name filter with the matched anime records.  null is 0.       *)
(***************************************************************************)
Media(id) ==
    [anilistId    |-> id,
     titleRomaji  |-> IF id % 6 \in {1, 2, 4} THEN "romaji" ELSE "",
     titleEnglish |-> IF id % 6 \in {1, 4, 0} THEN "english" ELSE "",
     titleNative  |-> IF id % 6 \in {3, 4, 0} THEN "native" ELSE ""]

RemotePage(n, page) ==
    LET first == (page - 1) * RemotePageSize + 1
        last  == Min(page * RemotePageSize, n)
    IN [mediaList   |-> [k \in 1..Max(0, last - first + 1) |-> Media(first + k - 1)],
        hasNextPage |-> page * RemotePageSize < n]

Theme(type, sequence) == [type |-> type, sequence |-> sequence]

\* data.anime of GET /anime?filter[name]=<the title of variant v of entry id>
RemoteAnime(id, v) ==
    CASE id % 6 = 1 /\ v = "titleEnglish" ->
            << [animethemes |-> << Theme("OP", 1), Theme("ED", 1) >>] >>
      [] id % 12 = 2 /\ v = "titleRomaji" ->
            << [animethemes |-> << Theme("OP", 0), Theme("OP", 1), Theme("OP", 2) >>] >>
      [] id % 12 = 8 /\ v = "titleRomaji" ->
            << [animethemes |-> << Theme("OP", 1), Theme("OP", 2), Theme("OP", 3),
                                   Theme("OP", 4), Theme("OP", 5), Theme("OP", 6) >>] >>
      [] id % 6 = 3 /\ v = "titleNative" ->
            << [animethemes |-> << Theme("ED", 1) >>] >>
      [] id % 6 = 4 /\ v = "titleRomaji" ->
            << [animethemes |-> << Theme("OP", 1) >>] >>
      [] id % 6 = 4 /\ v = "titleEnglish" ->
            << [animethemes |-> << Theme("OP", 2) >>] >>
      [] id % 6 = 4 /\ v = "titleNative" ->
            << [animethemes |-> << Theme("OP", 3) >>] >>
      [] id % 6 = 0 /\ v = "titleNative" ->
            << [animethemes |-> << Theme("op", 1) >>] >>
      [] OTHER -> << >>

(***************************************************************************)
(* Utils                                                                   *)
(***************************************************************************)
CardIdsOf(cs) == {cs[k].id : k \in 1..Len(cs)}

\* the first record of an id kept, the later ones dropped
RECURSIVE dedupeKeepFirst(_)
dedupeKeepFirst(arr) ==
    IF arr = << >> THEN << >>
    ELSE LET init == dedupeKeepFirst(Front(arr))
             c    == arr[Len(arr)]
         IN IF \E k \in 1..Len(init) : init[k].id = c.id THEN init ELSE Append(init, c)

RECURSIVE dedupeById(_)
dedupeById(arr) ==
    IF arr = << >> THEN << >>
    ELSE LET init == dedupeById(Front(arr))
             c    == arr[Len(arr)]
         IN IF \E k \in 1..Len(init) : init[k].id = c.id
            THEN [k \in 1..Len(init) |-> IF init[k].id = c.id THEN c ELSE init[k]]
            ELSE Append(init, c)

(***************************************************************************)
(* getOpeningsForAniListId: the extraction of one theme-index response     *)
(***************************************************************************)
Variant == << "titleRomaji", "titleEnglish", "titleNative" >>

toUpperCase(t) == IF t = "op" THEN "OP" ELSE IF t = "ed" THEN "ED" ELSE t

Opening(t) == [type |-> "OP", number |-> t.sequence]

RECURSIVE OpeningsOf(_)
OpeningsOf(themes) ==
    IF themes = << >> THEN << >>
    ELSE LET rest == OpeningsOf(Front(themes))
             t    == themes[Len(themes)]
         IN IF toUpperCase(t.type) # "OP" THEN rest ELSE Append(rest, Opening(t))

fetchByUrl(data) == IF Len(data) = 0 THEN << >> ELSE OpeningsOf(data[1].animethemes)

\* the variants taken one after the other, the empty ones included
NextVariantUnfiltered(m, k) == IF k < Len(Variant) THEN k + 1 ELSE 0

\* the next title variant after position k that is not empty; 0 when none is left
NextVariant(m, k) ==
    LET left == {j \in (k + 1)..Len(Variant) : m[Variant[j]] # ""}
    IN IF left = {} THEN 0 ELSE CHOOSE j \in left : \A j2 \in left : j <= j2

\* { ...cache, [String(anilistId)]: results }
WithEntry(c, id, results) == (id :> results) @@ c

(***************************************************************************)
(* buildDeckFromAniList                                                    *)
(***************************************************************************)
NoError == ""
RequestFailed == "request failed"
UserNotFound == "Utilisateur AniList introuvable"
NoAnime == "Aucun anime trouve pour cet utilisateur"
NoOpenings == "Aucun OP trouve via AnimeThemes"

\* `${m.anilistId}::OP${op.number || 1}`
CardId(m, op) == << m.anilistId, "::OP", IF op.number = 0 THEN 1 ELSE op.number >>

Card(m, op) ==
    [id |-> CardId(m, op), anilistId |-> m.anilistId, titleRomaji |-> m.titleRomaji,
     titleEnglish |-> m.titleEnglish, titleNative |-> m.titleNative, opNumber |-> op.number]

\* lines 317-338: the cards of ops whose id the identifier set does not hold yet
RECURSIVE Stage(_, _, _)
Stage(ops, m, ids) ==
    IF ops = << >> THEN [ids |-> ids, newCards |-> << >>]
    ELSE LET st == Stage(Front(ops), m, ids)
             op == ops[Len(ops)]
         IN IF CardId(m, op) \in st.ids THEN st
            ELSE [ids |-> st.ids \cup {CardId(m, op)}, newCards |-> Append(st.newCards, Card(m, op))]

NewRun(c) ==
    [cache |-> c, out |-> << >>, page |-> 1, list |-> << >>, i |-> 1, v |-> 0,
     res |-> "", end |-> "", committed |-> {}]

\* a returned invocation: its locals are gone, how it ended is remembered
Ended(how) == [NewRun(<< >>) EXCEPT !.end = how]

\* lines 298-304, up to the await of getAniListUserId
Begin(r) ==
    /\ pc[r] = "idle"
    /\ error' = NoError
    /\ loading' = TRUE
    /\ cancelImportRef' = FALSE
    /\ idsRef' = CardIdsOf(cards)
    /\ pc' = [pc EXCEPT ![r] = "userId"]
    /\ run' = [run EXCEPT ![r] = NewRun(cache)]
    /\ UNCHANGED <<cards, cache, progress, storeVars, remote, settingVars, srsVars, deckVars, reviewVars, fetchVars>>

\* the invocations of a behaviour are numbered in the order they start
FreeRun == CHOOSE r \in Runs : pc[r] = "idle" /\ \A q \in Runs : pc[q] = "idle" => r <= q

\* line 448-452: the button, disabled while loading
ClickCharger ==
    /\ ~loading
    /\ \E r \in Runs : pc[r] = "idle"
    /\ Begin(FreeRun)

\* line 446: Enter in the username field
PressEnter ==
    /\ \E r \in Runs : pc[r] = "idle"
    /\ Begin(FreeRun)

\* lines 355-360: catch of the run, then finally
Fatal(r, l, message) ==
    /\ error' = message
    /\ cards' = << >>
    /\ storedCards' = << >>
    /\ loading' = FALSE
    /\ pc' = [pc EXCEPT ![r] = "done"]
    /\ run' = [run EXCEPT ![r] = Ended("fatal")]
    /\ UNCHANGED <<cache, storedCache, progress, idsRef, cancelImportRef>>

\* an empty deck reported as a failed request
FinishAsFailure(r, l, prog) ==
    /\ cards' = dedupeById(cards)
    /\ storedCards' = cards'
    /\ error' = IF Len(cards') = 0 THEN RequestFailed ELSE error
    /\ loading' = FALSE
    /\ progress' = prog
    /\ pc' = [pc EXCEPT ![r] = "done"]
    /\ run' = [run EXCEPT ![r] = Ended(l.end)]
    /\ UNCHANGED <<cache, storedCache, idsRef, cancelImportRef>>

\* 'nothing matched' reported when the run itself has committed no card
FinishReportsOwnCards(r, l, prog) ==
    /\ cards' = dedupeById(cards)
    /\ storedCards' = cards'
    /\ error' = IF l.committed = {} THEN NoOpenings ELSE error
    /\ loading' = FALSE
    /\ progress' = prog
    /\ pc' = [pc EXCEPT ![r] = "done"]
    /\ run' = [run EXCEPT ![r] = Ended(l.end)]
    /\ UNCHANGED <<cache, storedCache, idsRef, cancelImportRef>>

\* lines 347-354 and 359: the final dedupe, then finally
Finish(r, l, prog) ==
    /\ cards' = dedupeById(cards)
    /\ storedCards' = cards'
    /\ error' = IF Len(cards') = 0 THEN NoOpenings ELSE error
    /\ loading' = FALSE
    /\ progress' = prog
    /\ pc' = [pc EXCEPT ![r] = "done"]
    /\ run' = [run EXCEPT ![r] = Ended(l.end)]
    /\ UNCHANGED <<cache, storedCache, idsRef, cancelImportRef>>

\* lines 317-345: stage the openings of the entry, commit them, count, then sleep
StageAndSleep(r, l, prog, ops) ==
    LET st == Stage(ops, l.list[l.i], idsRef)
    IN /\ idsRef' = st.ids
       /\ cards' = IF Len(st.newCards) > 0 THEN dedupeById(cards \o st.newCards) ELSE cards
       /\ storedCards' = cards'
       /\ progress' = [prog EXCEPT !.processedShows = @ + 1, !.totalOps = @ + Len(st.newCards)]
       /\ pc' = [pc EXCEPT ![r] = "itemSleep"]
       /\ run' = [run EXCEPT ![r] =
                    [l EXCEPT !.res = "ok", !.committed = @ \cup CardIdsOf(st.newCards)]]
       /\ UNCHANGED <<loading, error, cancelImportRef>>

\* lines 263-288: after variant k gave `results`, ask the next variant or store and return
ResolveFrom(r, l, prog, k, results) ==
    LET m    == l.list[l.i]
        next == NextVariant(m, k)
    IN IF Len(results) = 0 /\ next # 0
       THEN /\ pc' = [pc EXCEPT ![r] = "theme"]
            /\ run' = [run EXCEPT ![r] = [l EXCEPT !.v = next]]
            /\ progress' = prog
            /\ UNCHANGED <<cards, cache, loading, error, idsRef, cancelImportRef, storeVars>>
       ELSE /\ cache' = WithEntry(l.cache, m.anilistId, results)
            /\ storedCache' = cache'
            /\ StageAndSleep(r, l, prog, results)

\* lines 224-227: the cache of the render the run was started from
CacheHit(l, id) == id \in DOMAIN l.cache

\* lines 309-316: the head of one iteration, up to its first await
LoopHead(r, l, prog) ==
    IF l.i > Len(l.list)
    THEN Finish(r, [l EXCEPT !.end = "completed"], prog)
    ELSE IF cancelImportRef
    THEN Finish(r, [l EXCEPT !.end = "cancelled"], prog)
    ELSE IF CacheHit(l, l.list[l.i].anilistId)
    THEN /\ StageAndSleep(r, l, prog, l.cache[l.list[l.i].anilistId])
         /\ UNCHANGED <<cache, storedCache>>
    ELSE ResolveFrom(r, l, prog, 0, << >>)

\* the cap taken as configured
CapNoFloor(n) == n

\* line 306: Math.max(10, maxShows)
Cap(n) == Max(MIN_SHOWS, n)

\* every page taken for the last one
HasNextNever(data) == FALSE

\* lines 216-217: data?.data?.Page?.pageInfo?.hasNextPage
HasNext(data) == data.hasNextPage

\* lines 184-190
UserIdOk(r) ==
    /\ pc[r] = "userId"
    /\ pc' = [pc EXCEPT ![r] = "page"]
    /\ UNCHANGED <<uiVars, storeVars, remote, settingVars, srsVars, deckVars, reviewVars, run, fetchVars>>

UserIdFail(r) ==
    /\ pc[r] = "userId"
    /\ \E message \in {RequestFailed, UserNotFound} : Fatal(r, run[r], message)
    /\ UNCHANGED <<remote, settingVars, srsVars, deckVars, reviewVars, fetchVars>>

\* lines 203-219 and 306-308
PageOk(r) ==
    /\ pc[r] = "page"
    /\ LET data == RemotePage(remote, run[r].page)
           out  == run[r].out \o data.mediaList
       IN IF HasNext(data)
          THEN /\ pc' = [pc EXCEPT ![r] = "pageSleep"]
               /\ run' = [run EXCEPT ![r].out = out, ![r].page = @ + 1]
               /\ UNCHANGED <<uiVars, storeVars>>
          ELSE LET list == SubSeq(out, 1, Min(Len(out), Cap(maxShows)))
                   l    == [run[r] EXCEPT !.out = out, !.list = list]
               IN IF Len(list) = 0
                  THEN Fatal(r, l, NoAnime)
                  ELSE LoopHead(r, l, [totalShows |-> Len(list), processedShows |-> 0, totalOps |-> 0])
    /\ UNCHANGED <<remote, settingVars, srsVars, deckVars, reviewVars, fetchVars>>

PageFail(r) ==
    /\ pc[r] = "page"
    /\ Fatal(r, run[r], RequestFailed)
    /\ UNCHANGED <<remote, settingVars, srsVars, deckVars, reviewVars, fetchVars>>

\* line 219: sleep(400), then the request of the next page
PageSleepDone(r) ==
    /\ pc[r] = "pageSleep"
    /\ pc' = [pc EXCEPT ![r] = "page"]
    /\ UNCHANGED <<uiVars, storeVars, remote, settingVars, srsVars, deckVars, reviewVars, run, fetchVars>>

\* lines 229-260 and 263-288: a theme-index response
ThemeOk(r) ==
    /\ pc[r] = "theme"
    /\ LET l == run[r]
           m == l.list[l.i]
       IN ResolveFrom(r, l, progress, l.v, fetchByUrl(RemoteAnime(m.anilistId, Variant[l.v])))
    /\ UNCHANGED <<remote, settingVars, srsVars, deckVars, reviewVars, fetchVars>>

\* the failure of one entry handed to the catch of the run (lines 355-360)
ThemeFailEscalates(r) ==
    /\ pc[r] = "theme"
    /\ error' = RequestFailed
    /\ cards' = << >>
    /\ storedCards' = << >>
    /\ loading' = FALSE
    /\ pc' = [pc EXCEPT ![r] = "done"]
    /\ run' = [run EXCEPT ![r].res = "threw", ![r].end = "fatal"]
    /\ UNCHANGED <<cache, progress, idsRef, cancelImportRef, storedCache, remote, settingVars, srsVars, deckVars, reviewVars, fetchVars>>

\* a failed entry remembered as an entry without openings
ThemeFailCachesEmpty(r) ==
    /\ pc[r] = "theme"
    /\ cache' = WithEntry(run[r].cache, run[r].list[run[r].i].anilistId, << >>)
    /\ storedCache' = cache'
    /\ progress' = [progress EXCEPT !.processedShows = @ + 1]
    /\ pc' = [pc EXCEPT ![r] = "itemSleep"]
    /\ run' = [run EXCEPT ![r].res = "threw"]
    /\ UNCHANGED <<cards, loading, error, idsRef, cancelImportRef, storedCards, remote, settingVars, srsVars, deckVars, reviewVars, fetchVars>>

\* a failed entry followed by the next one without the sleep of line 345
ThemeFailNoSleep(r) ==
    /\ pc[r] = "theme"
    /\ LoopHead(r, [run[r] EXCEPT !.i = @ + 1, !.v = 0, !.res = ""],
                [progress EXCEPT !.processedShows = @ + 1])
    /\ UNCHANGED <<remote, settingVars, srsVars, deckVars, reviewVars, fetchVars>>

\* lines 341-345: fetchJSON threw
ThemeFail(r) ==
    /\ pc[r] = "theme"
    /\ progress' = [progress EXCEPT !.processedShows = @ + 1]
    /\ pc' = [pc EXCEPT ![r] = "itemSleep"]
    /\ run' = [run EXCEPT ![r].res = "threw"]
    /\ UNCHANGED <<cards, cache, loading, error, idsRef, cancelImportRef, storeVars, remote, settingVars, srsVars, deckVars, reviewVars, fetchVars>>

\* line 345-346: the polite delay is over, next iteration
ItemSleepDone(r) ==
    /\ pc[r] = "itemSleep"
    /\ LoopHead(r, [run[r] EXCEPT !.i = @ + 1, !.v = 0, !.res = ""], progress)
    /\ UNCHANGED <<remote, settingVars, srsVars, deckVars, reviewVars, fetchVars>>

\* line 380, behind the button shown while loading (line 466-474)
cancelImport ==
    /\ loading
    /\ cancelImportRef' = TRUE
    /\ UNCHANGED <<cards, cache, loading, error, progress, idsRef, storeVars, remote, settingVars, srsVars, deckVars, reviewVars, runVars, fetchVars>>

\* lines 145-147 (App.jsx 274-278): the settings of a fresh installation
InitSettings ==
    /\ maxShows = DEFAULT_MAX_SHOWS
    /\ easyDelayHours = DEFAULT_EASY_DELAY_HOURS
    /\ diffAgain = FALSE

\* no card has been graded
NoReview == app = "part_000" /\ srs = << >> /\ now = 0 /\ hist = << >> /\ start = << >>

\* no list fetched, no card on screen (null), no timer pending
NoDeck == catalog = << >> /\ currentCard = << >> /\ timers = << >>

\* no card graded (the map is {}, lastGrade is null), nothing stored, no helper called
NoGrades == srsById = << >> /\ storedSrs = << >> /\ lastGrade = << >> /\ arg = << >>

Init ==
    /\ cards = << >>
    /\ cache = << >>
    /\ loading = FALSE
    /\ error = NoError
    /\ progress = [totalShows |-> 0, processedShows |-> 0, totalOps |-> 0]
    /\ idsRef = {}
    /\ cancelImportRef = FALSE
    /\ storedCards = << >>
    /\ storedCache = << >>
    /\ remote \in 0..MaxAnime
    /\ pc = [r \in Runs |-> "idle"]
    /\ run = [r \in Runs |-> NewRun(<< >>)]
    /\ fpc = "idle" /\ attempt = 0 /\ backoff = 0 /\ lastStatus = 0 /\ nreq = 0 /\ nsleep = 0
    /\ lastHeader = [kind |-> "absent"]
    /\ InitSettings
    /\ NoReview
    /\ NoDeck
    /\ NoGrades

Next ==
    \/ ClickCharger
    \/ PressEnter
    \/ cancelImport
    \/ \E r \in Runs : UserIdOk(r)
    \/ \E r \in Runs : UserIdFail(r)
    \/ \E r \in Runs : PageOk(r)
    \/ \E r \in Runs : PageFail(r)
    \/ \E r \in Runs : PageSleepDone(r)
    \/ \E r \in Runs : ThemeOk(r)
    \/ \E r \in Runs : ThemeFail(r)
    \/ \E r \in Runs : ItemSleepDone(r)

Spec == Init /\ [][Next]_vars

(***************************************************************************)
(* SpecSolo: the first import of a session, running alone, over catalogs   *)
(* longer than the cap and with the maxShows a stored settings blob may    *)
(* hold (line 147 takes any finite number).                                *)
(***************************************************************************)
MaxCatalog == 11

MaxShowsSettings == {1, MIN_SHOWS, DEFAULT_MAX_SHOWS}

\* lines 448-452: the button, clicked once
ClickChargerOnce ==
    /\ \A r \in Runs : pc[r] = "idle"
    /\ ClickCharger

InitSolo ==
    /\ cards = << >> /\ cache = << >> /\ loading = FALSE /\ error = NoError
    /\ progress = [totalShows |-> 0, processedShows |-> 0, totalOps |-> 0]
    /\ idsRef = {} /\ cancelImportRef = FALSE
    /\ storedCards = << >> /\ storedCache = << >>
    /\ remote \in 0..MaxCatalog
    /\ pc = [r \in Runs |-> "idle"]
    /\ run = [r \in Runs |-> NewRun(<< >>)]
    /\ fpc = "idle" /\ attempt = 0 /\ backoff = 0 /\ lastStatus = 0 /\ nreq = 0 /\ nsleep = 0
    /\ lastHeader = [kind |-> "absent"]
    /\ maxShows \in MaxShowsSettings
    /\ easyDelayHours = DEFAULT_EASY_DELAY_HOURS
    /\ diffAgain = FALSE
    /\ NoReview
    /\ NoDeck
    /\ NoGrades

NextSolo ==
    \/ ClickChargerOnce
    \/ cancelImport
    \/ \E r \in Runs : UserIdOk(r)
    \/ \E r \in Runs : UserIdFail(r)
    \/ \E r \in Runs : PageOk(r)
    \/ \E r \in Runs : PageFail(r)
    \/ \E r \in Runs : PageSleepDone(r)
    \/ \E r \in Runs : ThemeOk(r)
    \/ \E r \in Runs : ThemeFail(r)
    \/ \E r \in Runs : ItemSleepDone(r)

SpecSolo == InitSolo /\ [][NextSolo]_vars

\* a request that is out gets its response and a timer that is set fires
FairList == \A r \in Runs : WF_vars(PageOk(r)) /\ WF_vars(PageSleepDone(r))

SpecSoloFair == SpecSolo /\ FairList

(***************************************************************************)
(* Claims about buildDeckFromAniList (Spec)                                *)
(***************************************************************************)
Active(r) == pc[r] \notin {"idle", "done"}

\* the entry invocation r is working on
Entry(l) == l.list[l.i]

\* C1: whenever Cache holds an entry for a catalogId (an empty list included),
\* resolving that catalogId issues no network request: no call of
\* getOpeningsForAniListId for an id in the domain of cache sends a theme request.
C1_CacheHitIssuesNoRequest ==
    [][\A r \in Runs :
         (pc[r] # "theme" /\ pc'[r] = "theme")
            => Entry(run'[r]).anilistId \notin DOMAIN cache]_vars

\* C2: a run-level fatal error (user lookup or list fetch failing) discards no
\* card: every card of CardStore before the error is in CardStore after it.
C2_FatalErrorKeepsCards ==
    [][\A r \in Runs :
         (pc[r] \in {"userId", "page"} /\ pc'[r] = "done"
             /\ error' \in {RequestFailed, UserNotFound}
             /\ \A q \in Runs \ {r} : ~Active(q))
            => /\ CardIdsOf(cards) \subseteq CardIdsOf(cards')
               /\ CardIdsOf(storedCards) \subseteq CardIdsOf(storedCards')]_vars

\* C6: a resolution failure of one entry does not abort the run: the entry is
\* counted as processed with no card added, the card store is left as it was,
\* and after the delay the run goes on with the next entry unless it was
\* cancelled or the entry was the last one.
C6_ResolutionFailureIsContained ==
    [][\A r \in Runs :
         /\ (pc[r] = "theme" /\ run'[r].res = "threw")
               => /\ cards' = cards
                  /\ storedCards' = storedCards
                  /\ progress'.processedShows = progress.processedShows + 1
                  /\ progress'.totalOps = progress.totalOps
                  /\ error' = error
                  /\ loading' = loading
                  /\ pc'[r] = "itemSleep"
                  /\ run'[r].i = run[r].i
                  /\ run'[r].list = run[r].list
         /\ (pc[r] = "itemSleep" /\ run[r].res = "threw" /\ pc'[r] # "itemSleep")
               => IF run[r].i < Len(run[r].list) /\ ~cancelImportRef
                  THEN /\ pc'[r] = "theme"
                       /\ run'[r].i = run[r].i + 1
                       /\ run'[r].list = run[r].list
                  ELSE /\ pc'[r] = "done"
                       /\ run'[r].end = IF run[r].i < Len(run[r].list)
                                        THEN "cancelled" ELSE "completed"]_vars

\* a first entry whose resolution threw, with a later entry still to come
C6_Witness ==
    \E r \in Runs : /\ pc[r] = "itemSleep" /\ run[r].res = "threw"
                    /\ run[r].i < Len(run[r].list) /\ ~cancelImportRef
                    /\ progress.processedShows = 1 /\ progress.totalOps = 0

\* C9: when a run leaves the loop because it saw the cancellation flag, every
\* card committed by its earlier entries is in CardStore as the run ends, and
\* the ended run commits nothing more.
C9_CancelKeepsCommittedCards ==
    [][\A r \in Runs :
         /\ (pc[r] = "itemSleep" /\ pc'[r] = "done" /\ run'[r].end = "cancelled")
               => run[r].committed \subseteq CardIdsOf(cards')
         /\ pc[r] = "done" => pc'[r] = "done"]_vars

\* C10: at most one import run is active at a time, whichever way runs are started.
C10_AtMostOneActiveRun == Cardinality({r \in Runs : Active(r)}) <= 1

\* C19: the empty outcomes are told apart from a failure and from each other.
\* A run that ends on the list fetch reports 'no entries' only when the list
\* came back empty; a run that leaves the loop with an empty CardStore reports
\* 'nothing matched' and one that leaves it with cards reports nothing new; a
\* failed request is reported with a text that is neither of the two.
C19_EmptyOutcomesAreDistinct ==
    /\ [](/\ NoAnime # NoOpenings
          /\ {NoAnime, NoOpenings} \cap {NoError, RequestFailed, UserNotFound} = {}
          /\ (error = NoAnime => remote = 0)
          /\ (remote = 0 => error # NoOpenings))
    /\ [][\A r \in Runs :
            (pc[r] # "done" /\ pc'[r] = "done")
               => IF run'[r].end = "fatal"
                  THEN /\ error' \in {RequestFailed, UserNotFound, NoAnime}
                       /\ error' = UserNotFound => pc[r] = "userId"
                       /\ error' = NoAnime => (pc[r] = "page" /\ remote = 0)
                  ELSE /\ run'[r].end \in {"completed", "cancelled"}
                       /\ remote > 0
                       /\ error' = IF Len(cards') = 0 THEN NoOpenings ELSE error]_vars

\* a run over a list with entries that completed with no card at all
C19_Witness ==
    \E r \in Runs :
        /\ pc[r] = "done" /\ run[r].end = "completed"
        /\ remote > 0 /\ cards = << >> /\ error = NoOpenings

\* C11: a resolution that returns has written its list (an empty one included)
\* to Cache under the catalogId, and an entry of Cache stays in Cache with the
\* same list through every later step (no step of this specification clears
\* the cache), the resolutions of other catalogIds included.
C11_ResolvedStaysCached ==
    [][/\ \A r \in Runs :
            (pc[r] = "theme" /\ run'[r].res = "ok")
               => Entry(run[r]).anilistId \in DOMAIN cache'
       /\ \A id \in DOMAIN cache :
            id \in DOMAIN cache' /\ cache'[id] = cache[id]]_vars

(***************************************************************************)
(* fetchJSON (part_000 lines 89-114, App.jsx lines 78-102: the same code,  *)
(* App.jsx with the two tunables written out)                              *)
(***************************************************************************)
\* what the remote may answer
Statuses == {200, 204, 400, 404, 429, 499, 500, 503, 599, 600}
RetryAfterSeconds == {-1, 0, 1, 2, 30}
Headers ==
    {[kind |-> "absent"], [kind |-> "text"]} \cup {[kind |-> "seconds", n |-> k] : k \in RetryAfterSeconds}

\* r.ok
Ok(status) == status >= 200 /\ status <= 299

\* Number(r.headers.get("Retry-After")): Number(null) is 0, Number of a date is NaN
Number(h) ==
    CASE h.kind = "absent"  -> [nan |-> FALSE, v |-> 0]
      [] h.kind = "text"    -> [nan |-> TRUE, v |-> 0]
      [] h.kind = "seconds" -> [nan |-> FALSE, v |-> h.n]

\* the truth value of a number: neither 0 nor NaN
Truthy(x) == ~x.nan /\ x.v # 0

RECURSIVE Pow2(_)
Pow2(n) == IF n = 0 THEN 1 ELSE 2 * Pow2(n - 1)

\* every error status retried
RetryableAnyError(status) == status >= 400

\* line 98
Retryable(status) == status = 429 \/ (status >= 500 /\ status < 600)

\* the cap checked one retry too late
ExhaustedOffByOne(a) == a > MAX_RETRIES

\* line 99
Exhausted(a) == a >= MAX_RETRIES

\* Retry-After taken as it comes, without the floor of one second
BackoffNoFloor(retryAfter, a, jitter) ==
    IF Truthy(retryAfter)
    THEN retryAfter.v * 1000
    ELSE Min(1000 * Pow2(a), 16000) + jitter

\* lines 103-105, jitter being Math.floor(Math.random() * JITTER_MS)
Backoff(retryAfter, a, jitter) ==
    IF Truthy(retryAfter)
    THEN Max(1000, retryAfter.v * 1000)
    ELSE Min(1000 * Pow2(a), 16000) + jitter

\* lines 90-92: the call and its first request
FetchCall ==
    /\ fpc = "idle"
    /\ fpc' = "request"
    /\ attempt' = 0
    /\ nreq' = 1
    /\ UNCHANGED <<backoff, lastStatus, lastHeader, nsleep, uiVars, storeVars, remote, settingVars, srsVars, deckVars, reviewVars, runVars>>

\* lines 93-112: a response arrives
Respond ==
    /\ fpc = "request"
    /\ \E status \in Statuses :
          /\ lastStatus' = status
          /\ IF Ok(status)
             THEN fpc' = "ok" /\ UNCHANGED <<backoff, nsleep, lastHeader>>
             ELSE IF Retryable(status) /\ ~Exhausted(attempt)
             THEN /\ fpc' = "backoff"
                  /\ \E h \in Headers :
                        /\ lastHeader' = h
                        /\ IF Truthy(Number(h))
                           THEN backoff' = Backoff(Number(h), attempt, 0)
                           ELSE \E jitter \in 0..(JITTER_MS - 1) :
                                   backoff' = Backoff(Number(h), attempt, jitter)
                  /\ nsleep' = nsleep + 1
             ELSE fpc' = "failed" /\ UNCHANGED <<backoff, nsleep, lastHeader>>
    /\ UNCHANGED <<attempt, nreq, uiVars, storeVars, remote, settingVars, srsVars, deckVars, reviewVars, runVars>>

\* lines 106-108 and 92: the sleep is over, the next request goes out
Wake ==
    /\ fpc = "backoff"
    /\ attempt' = attempt + 1
    /\ fpc' = "request"
    /\ nreq' = nreq + 1
    /\ backoff' = 0
    /\ UNCHANGED <<lastStatus, lastHeader, nsleep, uiVars, storeVars, remote, settingVars, srsVars, deckVars, reviewVars, runVars>>

InitFetch ==
    /\ cards = << >> /\ cache = << >> /\ loading = FALSE /\ error = NoError
    /\ progress = [totalShows |-> 0, processedShows |-> 0, totalOps |-> 0]
    /\ idsRef = {} /\ cancelImportRef = FALSE
    /\ storedCards = << >> /\ storedCache = << >>
    /\ remote = 0
    /\ pc = [r \in Runs |-> "idle"]
    /\ run = [r \in Runs |-> NewRun(<< >>)]
    /\ fpc = "idle" /\ attempt = 0 /\ backoff = 0 /\ lastStatus = 0 /\ nreq = 0 /\ nsleep = 0
    /\ lastHeader = [kind |-> "absent"]
    /\ InitSettings
    /\ NoReview
    /\ NoDeck
    /\ NoGrades

NextFetch == FetchCall \/ Respond \/ Wake

SpecFetch == InitFetch /\ [][NextFetch]_vars

(***************************************************************************)
(* Claims about fetchJSON (SpecFetch)                                      *)
(***************************************************************************)
\* C3: one call issues at most MAX_RETRIES + 1 requests; a call that fails on a
\* 429/5xx response has issued exactly MAX_RETRIES + 1, and after the response
\* to request MAX_RETRIES + 1 the call has ended (no further backoff).
C3_BoundedRetries ==
    /\ nreq <= MAX_RETRIES + 1
    /\ (fpc = "failed" /\ Retryable(lastStatus)) => nreq = MAX_RETRIES + 1
    /\ (nreq = MAX_RETRIES + 1 /\ fpc # "request") => fpc \in {"ok", "failed"}

\* seven 429/5xx responses in a row: the call has failed for good
C3_Witness == fpc = "failed" /\ lastStatus = 429 /\ nreq = MAX_RETRIES + 1 /\ nsleep = MAX_RETRIES

\* C4: every request after the first follows exactly one backoff sleep of the
\* same call, and every such sleep lasts at least 1000 ms.
C4_SleepBetweenRequests ==
    /\ fpc = "request" => nsleep = nreq - 1
    /\ fpc = "backoff" => nsleep = nreq /\ backoff >= 1000

\* a first retry that sleeps the minimum
C4_Witness == fpc = "backoff" /\ nreq = 1 /\ nsleep = 1 /\ backoff = 1000

\* C5: a response that is neither successful nor 429 nor 5xx ends the call at
\* once, at any attempt: the call has failed, no sleep followed the request
\* that got the response, and a failed call does nothing more.
C5_PermanentFailsAtOnce ==
    /\ [](lastStatus \in {400, 404, 499, 600} => fpc = "failed" /\ nsleep = nreq - 1)
    /\ [][fpc = "failed" => UNCHANGED fetchVars]_vars

\* a 404 after two retries
C5_Witness == fpc = "failed" /\ lastStatus = 404 /\ attempt = 2 /\ nreq = 3 /\ nsleep = 2

\* C23: the sleep before retry n (the first retry is n = 0) lasts
\* max(1000, s * 1000) ms when the response carried Retry-After: s seconds,
\* for every s, 0 included; without such a header it lasts
\* min(1000 * 2^n, 16000) + j ms with 0 <= j < JITTER_MS, so never more than
\* 16000 + JITTER_MS.
C23_WaitBeforeRetry ==
    fpc = "backoff" =>
        IF lastHeader.kind = "seconds"
        THEN backoff = Max(1000, lastHeader.n * 1000)
        ELSE /\ \E j \in 0..(JITTER_MS - 1) : backoff = Min(1000 * Pow2(attempt), 16000) + j
             /\ backoff <= 16000 + JITTER_MS

(***************************************************************************)
(* App.jsx: importAnilist, one request for the whole list, then the cards  *)
(* are built from the streaming episodes.  A link is a number >= 100, a    *)
(* missing link is 0.                                                      *)
(***************************************************************************)
AppMedia(id) ==
    [id |-> id,
     streamingEpisodes |->
        CASE id % 3 = 1 -> << [url |-> 101], [url |-> 102] >>
          [] id % 3 = 2 -> << >>
          [] OTHER      -> << [url |-> 0], [url |-> 103] >>]

\* MediaListCollection.lists.flatMap(list => list.entries.map(entry => entry.media))
AppEntries(n) == [k \in 1..n |-> AppMedia(k)]

\* arr.slice(0, n)
Slice(arr, n) == SubSeq(arr, 1, Min(Len(arr), n))

\* `${media.id}::OP${opNumber}::${x}`
AppKey(id, opNumber, x) == << id, "::OP", opNumber, "::", x >>

AppCard(id, opNumber, globalIndex, url) ==
    [id |-> AppKey(id, opNumber, globalIndex), opNumber |-> opNumber, videoUrl |-> url]

\* lines 170-187: the episodes of one media; acc is {globalIndex, seenOps, uniqueOps, seriesCards}
RECURSIVE AppEpisodes(_, _, _)
AppEpisodes(media, eps, acc0) ==
    IF eps = << >> THEN acc0
    ELSE LET acc      == AppEpisodes(media, Front(eps), acc0)
             episode  == eps[Len(eps)]
             opNumber == Len(eps)
             gi       == acc.globalIndex + 1
             key      == AppKey(media.id, opNumber, IF episode.url # 0 THEN episode.url ELSE -1)
         IN IF episode.url # 0 /\ key \notin acc.seenOps /\ opNumber \notin acc.uniqueOps
            THEN [globalIndex |-> gi, seenOps |-> acc.seenOps \cup {key},
                  uniqueOps |-> acc.uniqueOps \cup {opNumber},
                  seriesCards |-> Append(acc.seriesCards, AppCard(media.id, opNumber, gi, episode.url))]
            ELSE [acc EXCEPT !.globalIndex = gi]

\* lines 167-206: all entries; st is {globalIndex, seenOps, newCards}
RECURSIVE AppNewCards(_)
AppNewCards(entries) ==
    IF entries = << >> THEN [globalIndex |-> 0, seenOps |-> {}, newCards |-> << >>]
    ELSE LET st    == AppNewCards(Front(entries))
             media == entries[Len(entries)]
             acc   == AppEpisodes(media, Slice(media.streamingEpisodes, MAX_CARDS_PER_SERIES),
                                  [globalIndex |-> st.globalIndex, seenOps |-> st.seenOps,
                                   uniqueOps |-> {}, seriesCards |-> << >>])
             gi    == acc.globalIndex + 1
         IN IF Len(acc.seriesCards) > 0
            THEN [globalIndex |-> acc.globalIndex, seenOps |-> acc.seenOps,
                  newCards |-> st.newCards \o acc.seriesCards]
            ELSE IF AppKey(media.id, 1, gi) \notin acc.seenOps
            THEN [globalIndex |-> gi, seenOps |-> acc.seenOps \cup {AppKey(media.id, 1, gi)},
                  newCards |-> Append(st.newCards, AppCard(media.id, 1, gi, 0))]
            ELSE [globalIndex |-> gi, seenOps |-> acc.seenOps, newCards |-> st.newCards]

\* localStorage.removeItem and localStorage.setItem on the cards blob
removeItem(stored) == << >>

setItem(stored, value) == value

\* line 50-51: whether the stored blob is above MAX_STORAGE_SIZE_MB; the size
\* of a record is not modelled, an empty blob ("[]") is never above it
Oversize(stored) == IF stored = << >> THEN {FALSE} ELSE BOOLEAN

\* the purge of line 52 without the write of line 54
saveCardsPurgeOnly(stored, large, cs) ==
    IF large THEN removeItem(stored) ELSE setItem(stored, Slice(cs, APP_DEFAULT_MAX_SHOWS))

\* lines 49-55: the purge of line 52 is followed by the write of line 54
saveCards(stored, large, cs) ==
    LET purged == IF large THEN removeItem(stored) ELSE stored
    IN setItem(purged, Slice(cs, APP_DEFAULT_MAX_SHOWS))

AppRun(cs, others) ==
    [cards |-> cs, end |-> "", overlapped |-> others, size0 |-> << Len(cards), Len(storedCards) >>,
     size1 |-> << 0, 0 >>]

\* lines 118-155, up to the await of postJSON; the username is not empty (lines 509, 529)
importAnilist(r) ==
    /\ pc[r] = "idle"
    /\ loading' = TRUE
    /\ error' = NoError
    /\ pc' = [pc EXCEPT ![r] = "list"]
    /\ run' = [q \in Runs |->
                 IF q = r THEN AppRun(cards, \E o \in Runs : Active(o))
                 ELSE IF Active(q) THEN [run[q] EXCEPT !.overlapped = TRUE]
                 ELSE run[q]]
    /\ UNCHANGED <<cards, cache, progress, idsRef, cancelImportRef, storeVars, remote, settingVars, srsVars, deckVars, reviewVars, fetchVars>>

\* lines 527-533: the button, disabled while loading
ClickImporter ==
    /\ ~loading
    /\ \E r \in Runs : pc[r] = "idle"
    /\ importAnilist(FreeRun)

\* line 509: Enter in the username field
AppPressEnter ==
    /\ \E r \in Runs : pc[r] = "idle"
    /\ importAnilist(FreeRun)

\* lines 155-210 and 213-215
AppListOk(r) ==
    /\ pc[r] = "list"
    /\ LET newCards == AppNewCards(AppEntries(remote)).newCards
       IN /\ cards' = Slice(dedupeById(cards \o newCards), APP_DEFAULT_MAX_SHOWS)
          /\ \E large \in Oversize(storedCards) :
                storedCards' = saveCards(storedCards, large,
                                         Slice(run[r].cards \o newCards, APP_DEFAULT_MAX_SHOWS))
    /\ loading' = FALSE
    /\ pc' = [pc EXCEPT ![r] = "done"]
    /\ run' = [run EXCEPT ![r].end = "completed", ![r].cards = << >>,
                          ![r].size1 = << Len(cards'), Len(storedCards') >>]
    /\ UNCHANGED <<cache, error, progress, idsRef, cancelImportRef, storedCache, remote, settingVars, srsVars, deckVars, reviewVars, fetchVars>>

\* lines 211-215
AppListFail(r) ==
    /\ pc[r] = "list"
    /\ error' = RequestFailed
    /\ loading' = FALSE
    /\ pc' = [pc EXCEPT ![r] = "done"]
    /\ run' = [run EXCEPT ![r].end = "fatal", ![r].cards = << >>]
    /\ UNCHANGED <<cards, cache, progress, idsRef, cancelImportRef, storeVars, remote, settingVars, srsVars, deckVars, reviewVars, fetchVars>>

\* lines 46-48 and 255-281: the page is loaded again; the component is built anew
\* from localStorage and the invocations of the old page are gone
Reload ==
    /\ cards' = storedCards
    /\ loading' = FALSE
    /\ error' = NoError
    /\ pc' = [r \in Runs |-> IF Active(r) THEN "done" ELSE pc[r]]
    /\ run' = [r \in Runs |-> IF Active(r) THEN [run[r] EXCEPT !.end = "gone", !.cards = << >>]
                                          ELSE run[r]]
    /\ UNCHANGED <<cache, progress, idsRef, cancelImportRef, storeVars, remote, settingVars, srsVars, deckVars, reviewVars, fetchVars>>

InitApp ==
    /\ cards = << >> /\ cache = << >> /\ loading = FALSE /\ error = NoError
    /\ progress = [totalShows |-> 0, processedShows |-> 0, totalOps |-> 0]
    /\ idsRef = {} /\ cancelImportRef = FALSE
    /\ storedCards = << >> /\ storedCache = << >>
    /\ remote \in 0..MaxAnime
    /\ pc = [r \in Runs |-> "idle"]
    /\ run = [r \in Runs |-> AppRun(<< >>, FALSE)]
    /\ fpc = "idle" /\ attempt = 0 /\ backoff = 0 /\ lastStatus = 0 /\ nreq = 0 /\ nsleep = 0
    /\ lastHeader = [kind |-> "absent"]
    /\ InitSettings
    /\ NoReview
    /\ NoDeck
    /\ NoGrades

NextApp ==
    \/ ClickImporter
    \/ AppPressEnter
    \/ \E r \in Runs : AppListOk(r)
    \/ \E r \in Runs : AppListFail(r)
    \/ Reload

SpecApp == InitApp /\ [][NextApp]_vars

(***************************************************************************)
(* Claims about the card store (SpecApp)                                   *)
(***************************************************************************)
NoDuplicateIds(cs) == \A j, k \in 1..Len(cs) : cs[j].id = cs[k].id => j = k

\* C7: the ids of the card collection are pairwise distinct in every reachable
\* state, in memory and as persisted.
C7_UniqueCardIds == NoDuplicateIds(cards) /\ NoDuplicateIds(storedCards)

\* C8: an import that runs alone after an earlier complete import of the same
\* unmodified catalog leaves CardStore, in memory and as persisted, the size
\* it had when the import began.
C8_ImportIdempotent ==
    \A r \in Runs :
        (pc[r] = "done" /\ run[r].end = "completed" /\ ~run[r].overlapped
            /\ \E q \in Runs : q < r /\ pc[q] = "done" /\ run[q].end = "completed")
        => run[r].size1 = run[r].size0

(***************************************************************************)
(* Claims about one import running alone (SpecSolo)                        *)
(***************************************************************************)
\* what the theme index holds for variant j of entry m, as openings
Yield(m, j) == fetchByUrl(RemoteAnime(m.anilistId, Variant[j]))

\* the openings of the first variant, in the order romaji, english, native,
\* whose title is not empty and whose query yields a record
FirstYield(m) ==
    LET hits == {j \in 1..Len(Variant) : m[Variant[j]] # "" /\ Yield(m, j) # << >>}
    IN IF hits = {} THEN << >>
       ELSE Yield(m, CHOOSE j \in hits : \A j2 \in hits : j <= j2)

\* C12: on a cache miss the theme index is asked with the non-empty title
\* variants in the order romaji, english, native: each request carries the
\* first non-empty variant after the one asked before, a variant is asked only
\* when the one before yielded nothing, and the list returned and cached is
\* that of the first variant that yields a record, the empty list when none does.
C12_VariantOrder ==
    [][\A r \in Runs :
         /\ (pc'[r] = "theme" /\ (pc[r] # "theme" \/ run'[r].v # run[r].v))
               => LET m    == Entry(run'[r])
                      k    == run'[r].v
                      prev == IF pc[r] = "theme" THEN run[r].v ELSE 0
                  IN /\ k \in (prev + 1)..Len(Variant)
                     /\ m[Variant[k]] # ""
                     /\ \A j \in (prev + 1)..(k - 1) : m[Variant[j]] = ""
                     /\ prev # 0 => Yield(m, prev) = << >>
                     /\ m.anilistId \notin DOMAIN run'[r].cache
         /\ (pc'[r] = "itemSleep" /\ run'[r].res = "ok"
                /\ (pc[r] # "itemSleep" \/ run'[r].i # run[r].i)
                /\ Entry(run'[r]).anilistId \notin DOMAIN run'[r].cache)
               => LET m == Entry(run'[r])
                  IN /\ m.anilistId \in DOMAIN cache'
                     /\ cache'[m.anilistId] = FirstYield(m)
                     /\ pc[r] = "theme" => (Yield(m, run[r].v) # << >>
                                              \/ \A j \in (run[r].v + 1)..Len(Variant) : m[Variant[j]] = "")
                     /\ pc[r] # "theme" => \A j \in 1..Len(Variant) : m[Variant[j]] = ""]_vars

\* romaji yields nothing, english yields one opening: it is returned and cached
C12_Witness ==
    \E r \in Runs :
        /\ pc[r] = "itemSleep" /\ run[r].res = "ok"
        /\ Entry(run[r]).titleRomaji # "" /\ Yield(Entry(run[r]), 1) = << >>
        /\ Entry(run[r]).titleEnglish # "" /\ Len(Yield(Entry(run[r]), 2)) = 1
        /\ Entry(run[r]).anilistId \in DOMAIN cache
        /\ cache[Entry(run[r]).anilistId] = Yield(Entry(run[r]), 2)
        /\ Len(cards) = 1

\* the entries the list service holds for the user, in its order
Catalog == [k \in 1..remote |-> Media(k)]

\* C20: getAniListAnime requests page 1 first and page p + 1 only after page p
\* announced a next page and the delay after it has passed, appends the
\* entries of each page in page order, returns after the first page without a
\* next page with all the entries of the pages it fetched, requests no page
\* after that, and returns or throws whenever the remote has a last page.
C20_PagesInOrderUntilLast ==
    /\ [](\A r \in Runs :
            pc[r] \in {"page", "pageSleep"}
               => run[r].out = SubSeq(Catalog, 1, Min(remote, (run[r].page - 1) * RemotePageSize)))
    /\ [][\A r \in Runs :
            /\ pc'[r] = "page" => pc[r] \in {"userId", "page", "pageSleep"}
            /\ (pc[r] = "userId" /\ pc'[r] = "page")
                  => run'[r].page = 1 /\ run'[r].out = << >>
            /\ (pc[r] = "page" /\ pc'[r] = "pageSleep")
                  => /\ RemotePage(remote, run[r].page).hasNextPage
                     /\ run'[r].page = run[r].page + 1
                     /\ run'[r].out = run[r].out \o RemotePage(remote, run[r].page).mediaList
            /\ pc[r] = "pageSleep"
                  => pc'[r] \in {"pageSleep", "page"} /\ run'[r] = run[r]
            /\ (pc[r] = "page" /\ pc'[r] \notin {"page", "pageSleep"} /\ error' # RequestFailed)
                  => /\ ~RemotePage(remote, run[r].page).hasNextPage
                     /\ run[r].out \o RemotePage(remote, run[r].page).mediaList = Catalog
                     /\ pc'[r] # "done" => run'[r].out = Catalog]_vars
    /\ \A r \in Runs : (pc[r] = "page") ~> (pc[r] \notin {"page", "pageSleep"})

\* a list of three pages or more, fetched to its end
C20_Witness ==
    \E r \in Runs :
        /\ pc[r] = "theme" /\ run[r].i = 1
        /\ run[r].page >= 3
        /\ run[r].out = Catalog

\* the number of entries a run has to process
Effective == Min(remote, Max(MIN_SHOWS, maxShows))

\* C18: a run that is not cancelled processes exactly min(|catalog|,
\* max(10, maxShows)) entries: the list it works on is the fetched sequence
\* cut to that length (a prefix, in order, nothing invented), it takes the
\* entries one after the other, and when it completes it has processed them all.
C18_ProcessesCappedPrefix ==
    /\ [](\A r \in Runs :
            pc[r] \in {"theme", "itemSleep"}
               => /\ run[r].list = [k \in 1..Effective |-> Media(k)]
                  /\ run[r].i \in 1..Effective
                  /\ progress.totalShows = Effective
                  /\ progress.processedShows = IF pc[r] = "theme" THEN run[r].i - 1 ELSE run[r].i)
    /\ [][\A r \in Runs :
            (pc'[r] = "done" /\ pc[r] # "done" /\ run'[r].end = "completed")
               => /\ Effective >= 1
                  /\ progress'.processedShows = Effective
                  /\ progress'.totalShows = Effective]_vars

\* a catalog longer than ten entries and maxShows below ten: ten entries processed
C18_Witness ==
    \E r \in Runs :
        /\ pc[r] = "done" /\ run[r].end = "completed"
        /\ remote > MIN_SHOWS /\ maxShows < MIN_SHOWS
        /\ progress.processedShows = MIN_SHOWS

(***************************************************************************)
(* sm2Schedule: the four-grade policy of part_000 (lines 25-51) and the    *)
(* three-grade policy of App.jsx (lines 15-38).  Times are milliseconds,   *)
(* now counts from the start of the behaviour; ef is kept in hundredths    *)
(* (2.5 is 250), the steps of line 39 being multiples of 0.01.  A schedule *)
(* state is a record of the fields the code wrote; << >> is a card never   *)
(* graded (srs[id] undefined).                                             *)
(***************************************************************************)
MaxGrades == 3
MaxScaledInterval == 518400000

TEN_MINUTES == 600000
ONE_DAY == 86400000
SIX_DAYS == 518400000
ONE_HOUR == 3600000

\* let { f = d } = card || {}
Field(card, f, d) == IF f \in DOMAIN card THEN card[f] ELSE d

\* Math.round(interval * ef), ef in hundredths
RoundTimes(interval, ef) == (interval \div 100) * ef + ((interval % 100) * ef + 50) \div 100

\* the EF update without its clamp
NextEfUnclamped(ef, quality) ==
    LET q == << 2, 3, 4, 5 >>[quality + 1]
    IN ef + (10 - (5 - q) * (8 + (5 - q) * 2))

\* lines 37-40: qMap = [2, 3, 4, 5], the EF update and its clamp to [1.3, 2.8]
NextEf(ef, quality) ==
    LET q == << 2, 3, 4, 5 >>[quality + 1]
    IN Max(130, Min(280, ef + (10 - (5 - q) * (8 + (5 - q) * 2))))

\* one day after every success
NextIntervalFlat(reps, interval, ef) == ONE_DAY

\* the second interval scaled by the ease factor like the later ones
NextIntervalByEase(reps, interval, ef) ==
    IF reps = 0 THEN ONE_DAY ELSE RoundTimes(interval, ef)

\* lines 42-48
NextInterval(reps, interval, ef) ==
    IF reps = 0 THEN ONE_DAY
    ELSE IF reps = 1 THEN SIX_DAYS
    ELSE RoundTimes(interval, ef)

\* part_000 lines 25-51; t is the Date.now() of line 28
sm2Schedule(card, quality, t) ==
    LET ef       == Field(card, "ef", 250)
        interval == Field(card, "interval", 0)
        reps     == Field(card, "reps", 0)
    IN IF quality = 0
       THEN [ef |-> Max(130, ef - 20), interval |-> TEN_MINUTES, reps |-> 0, due |-> t + TEN_MINUTES]
       ELSE LET ef1 == NextEf(ef, quality)
                i1  == NextInterval(reps, interval, ef1)
            IN [ef |-> ef1, interval |-> i1, reps |-> reps + 1, due |-> t + i1]

\* App.jsx lines 15-38; card is the card's srs (card?.srs || {}), t the Date.now() of line 16
AppSm2Schedule(card, quality, easy, diff, t) ==
    LET reps      == Field(card, "reps", 0) + 1
        attempts  == Field(card, "attempts", 0) + 1
        successes == Field(card, "successes", 0) + (IF quality > 0 THEN 1 ELSE 0)
        interval  == IF quality = 2 THEN easy * ONE_HOUR
                     ELSE IF quality = 1 THEN 0
                     ELSE IF diff THEN TEN_MINUTES ELSE 0
    IN [interval |-> interval, reps |-> reps, attempts |-> attempts, successes |-> successes,
        due |-> IF quality = 1 THEN t ELSE t + interval]

\* the grades of the buttons: part_000 Again, Hard, Good, Easy; App.jsx Again, Hard, Easy
Qualities == 0..3
AppQualities == 0..2

\* what Date.now() has advanced by since the call before
Ticks == {0, 1, TEN_MINUTES}

\* the states a card is graded from first: none, and those of runSelfTests (lines 390, 413)
PriorStates ==
    {<< >>,
     [ef |-> 250, interval |-> 0, reps |-> 3, due |-> 0],
     [ef |-> 250, interval |-> 2 * ONE_DAY, reps |-> 2, due |-> 0]}

AppPriorStates ==
    {<< >>,
     [interval |-> ONE_DAY, reps |-> 3, attempts |-> 3, successes |-> 2, due |-> 0]}

\* line 444: the field keeps easyDelayHours within 1..720
EasyDelaySettings == {1, DEFAULT_EASY_DELAY_HOURS, 240}

\* part_000 line 365: one call of sm2Schedule on the state the call before returned
Sm2Call(quality, most, ticks) ==
    /\ app = "part_000"
    /\ Len(hist) < most
    /\ (quality # 0 /\ Field(srs, "reps", 0) >= 2) => Field(srs, "interval", 0) <= MaxScaledInterval
    /\ \E d \in ticks :
          /\ now' = now + d
          /\ srs' = sm2Schedule(srs, quality, now')
    /\ hist' = Append(hist, quality)
    /\ UNCHANGED <<uiVars, storeVars, remote, runVars, fetchVars, settingVars, app, start, deckVars, reviewVars>>

\* up to MaxGrades grades, at the times of Ticks
Sm2Step(quality) == Sm2Call(quality, MaxGrades, Ticks)

\* App.jsx line 310
AppSm2Step(quality) ==
    /\ app = "App.jsx"
    /\ Len(hist) < MaxGrades
    /\ \E d \in Ticks :
          /\ now' = now + d
          /\ srs' = AppSm2Schedule(srs, quality, easyDelayHours, diffAgain, now')
    /\ hist' = Append(hist, quality)
    /\ UNCHANGED <<uiVars, storeVars, remote, runVars, fetchVars, settingVars, app, start, deckVars, reviewVars>>

InitSrs ==
    /\ cards = << >> /\ cache = << >> /\ loading = FALSE /\ error = NoError
    /\ progress = [totalShows |-> 0, processedShows |-> 0, totalOps |-> 0]
    /\ idsRef = {} /\ cancelImportRef = FALSE
    /\ storedCards = << >> /\ storedCache = << >>
    /\ remote = 0
    /\ pc = [r \in Runs |-> "idle"]
    /\ run = [r \in Runs |-> NewRun(<< >>)]
    /\ fpc = "idle" /\ attempt = 0 /\ backoff = 0 /\ lastStatus = 0 /\ nreq = 0 /\ nsleep = 0
    /\ lastHeader = [kind |-> "absent"]
    /\ maxShows = DEFAULT_MAX_SHOWS
    /\ easyDelayHours \in EasyDelaySettings
    /\ diffAgain \in BOOLEAN
    /\ app \in {"part_000", "App.jsx"}
    /\ srs \in (IF app = "part_000" THEN PriorStates ELSE AppPriorStates)
    /\ start = srs
    /\ now = 0
    /\ hist = << >>
    /\ NoDeck
    /\ NoGrades

NextSrs ==
    \/ \E quality \in Qualities : Sm2Step(quality)
    \/ \E quality \in AppQualities : AppSm2Step(quality)

SpecSrs == InitSrs /\ [][NextSrs]_vars

(***************************************************************************)
(* Claims about the schedulers (SpecSrs)                                   *)
(***************************************************************************)
Again == 0
Hard == 1
Good == 2

\* the grade of the call that has just been made
Graded == hist'[Len(hist')]

\* C13: after any sequence of grades applied from the default state, under
\* either policy, attemptCount is the length of the sequence and successCount
\* lies between 0 and attemptCount, a field never written reading as its default 0.
C13_CountsFollowGrades ==
    start = << >> =>
        /\ Field(srs, "attempts", 0) = Len(hist)
        /\ Field(srs, "successes", 0) >= 0
        /\ Field(srs, "successes", 0) <= Field(srs, "attempts", 0)

\* C14: under either policy and from every prior state, grade Again yields
\* repetitionCount 0, interval 10 minutes and dueAt = now + 10 minutes.
C14_AgainRelearnsInTenMinutes ==
    [][(hist' # hist /\ Graded = Again)
          => /\ srs'.reps = 0
             /\ srs'.interval = TEN_MINUTES
             /\ srs'.due = now' + TEN_MINUTES]_vars

\* C15: under either policy every non-Again grade yields repetitionCount =
\* prior + 1, Again is the one grade after which repetitionCount is not larger
\* than before (after Again it is not larger, after any other grade it is),
\* and repetitionCount is never negative.
C15_RepetitionsGrow ==
    [][hist' # hist
          => /\ Graded # Again => srs'.reps = Field(srs, "reps", 0) + 1
             /\ Graded = Again <=> srs'.reps <= Field(srs, "reps", 0)
             /\ srs'.reps >= 0]_vars

\* C16: from every state reached from the default, under either policy, the
\* dueAt computed for a grade is never earlier than the now of the call, and it
\* equals now only for Hard.
C16_DueNotBeforeNow ==
    [][(hist' # hist /\ start = << >>)
          => /\ srs'.due >= now'
             /\ srs'.due = now' => Graded = Hard]_vars

\* no Again so far and no grade lower than the one before
NonDecreasingSuccesses(h) ==
    /\ \A k \in 1..Len(h) : h[k] # Again
    /\ \A k \in 1..(Len(h) - 1) : h[k] <= h[k + 1]

\* C17: in a sequence of non-Again grades of non-decreasing quality applied
\* from the default state, each review yields an interval at least as long as
\* the review before; in the four-grade policy Good at repetitionCount >= 2
\* yields an interval strictly longer than the prior one.
C17_IntervalsDoNotShrink ==
    [][(hist' # hist /\ start = << >>)
          => /\ (Len(hist) >= 1 /\ NonDecreasingSuccesses(hist'))
                   => srs'.interval >= srs.interval
             /\ (app = "part_000" /\ Graded = Good /\ Field(srs, "reps", 0) >= 2)
                   => srs'.interval > srs.interval]_vars

\* part_000: Hard, Good, Good from the default: one day, six days, more than six days
C17_Witness ==
    /\ app = "part_000" /\ start = << >>
    /\ hist = << Hard, Good, Good >>
    /\ srs.reps = 3
    /\ srs.interval > SIX_DAYS

\* the delay Again schedules under the running policy, from the present state
RelearnDelay ==
    IF app = "part_000"
    THEN sm2Schedule(srs, Again, now).interval
    ELSE AppSm2Schedule(srs, Again, easyDelayHours, diffAgain, now).interval

\* C24: under each policy the delay scheduled by Again is positive and at most
\* ten minutes, and it is strictly shorter than the interval scheduled by any
\* first successful review (a non-Again grade at repetitionCount 0).
C24_RelearnDelayShort ==
    [][hist' # hist
          => /\ Graded = Again
                   => /\ srs'.interval > 0
                      /\ srs'.interval <= TEN_MINUTES
             /\ (Graded # Again /\ Field(srs, "reps", 0) = 0)
                   => RelearnDelay < srs'.interval]_vars

(***************************************************************************)
(* Claims about the progress, the cancellation and the order of a run      *)
(***************************************************************************)
\* invocation r finishes the processing of an entry in this step
Processed(r) == pc'[r] = "itemSleep" /\ (pc[r] # "itemSleep" \/ run'[r].i # run[r].i)

\* C25: every processed entry, resolved or failed, adds exactly 1 to
\* processedShows (the first entry of a run counting from 0) and to totalOps
\* the number of cards staged for it; while a run is active
\* 0 <= processedShows <= totalShows; a run that completes without being
\* cancelled ends with processedShows = totalShows.
C25_ProgressPerEntry ==
    /\ []((\E r \in Runs : Active(r))
            => /\ progress.processedShows >= 0
               /\ progress.processedShows <= progress.totalShows)
    /\ [][\A r \in Runs :
            /\ Processed(r)
                 => LET before == IF pc[r] = "page"
                                  THEN [processedShows |-> 0, totalOps |-> 0]
                                  ELSE progress
                    IN /\ progress'.processedShows = before.processedShows + 1
                       /\ progress'.totalOps = before.totalOps
                             + Cardinality(run'[r].committed \ run[r].committed)
            /\ (pc[r] # "done" /\ pc'[r] = "done" /\ run'[r].end = "completed")
                 => progress'.processedShows = progress'.totalShows]_vars

\* invocation r begins the resolution of an entry in this step
BeginsEntry(r) ==
    /\ pc[r] \in {"page", "itemSleep"}
    /\ pc'[r] \in {"theme", "itemSleep"}
    /\ pc[r] = "itemSleep" => run'[r].i # run[r].i

\* C27: a cancellation requested while a run is active is never lost: as long
\* as that run is active the request stays pending, and with the request
\* pending the run begins the resolution of no further entry (a request or a
\* sleep in flight finishes, then the run ends at the entry boundary).
C27_CancelNeverLost ==
    [][\A r \in Runs :
          (cancelImportRef /\ Active(r))
             => /\ ~BeginsEntry(r)
                /\ pc'[r] \notin {"idle", "done"} => cancelImportRef']_vars

\* C28: a theme request that fails, the first of an entry or one for a later
\* title variant, leaves Cache and its stored copy as they were: the catalogId
\* of the entry gets no entry, not even an empty list, and a run started from
\* that cache that comes to the catalogId sends a request for it again.
C28_FailureWritesNoCache ==
    [][\A r \in Runs :
          /\ (pc[r] = "theme" /\ run'[r].res = "threw")
                => /\ cache' = cache
                   /\ storedCache' = storedCache
                   /\ Entry(run[r]).anilistId \notin DOMAIN cache
                         => Entry(run[r]).anilistId \notin DOMAIN cache'
          /\ (BeginsEntry(r)
                /\ Entry(run'[r]).anilistId \notin DOMAIN run'[r].cache
                /\ NextVariant(Entry(run'[r]), 0) # 0)
                => pc'[r] = "theme"]_vars

\* the request for the second title variant of an entry nothing is cached for
\* has just failed
C28_Witness ==
    \E r \in Runs :
        /\ pc[r] = "itemSleep"
        /\ run[r].res = "threw"
        /\ run[r].v = 2
        /\ Entry(run[r]).anilistId \notin DOMAIN cache

\* the awaits of buildDeckFromAniList at which a request is outstanding
Requesting == {"userId", "page", "theme"}

\* C30: an invocation is at one await at a time, so it has at most one request
\* outstanding; it sends a request only from the response to its previous
\* request or from a sleep that is over; and it starts on entry k + 1 only
\* from the inter-item sleep of entry k, the entries being taken one by one.
C30_StrictlySequential ==
    [][\A r \in Runs :
          /\ (pc'[r] \in Requesting /\ <<pc'[r], run'[r]>> # <<pc[r], run[r]>>)
                => \/ pc[r] \in Requesting
                   \/ pc[r] \in {"idle", "pageSleep", "itemSleep"}
          /\ (pc[r] = "pageSleep" /\ pc'[r] # pc[r]) => pc'[r] = "page"
          /\ (Active(r) /\ pc'[r] \in {"theme", "itemSleep"} /\ run'[r].i # run[r].i)
                => /\ pc[r] = "itemSleep"
                   /\ run'[r].i = run[r].i + 1]_vars

\* the request for the second entry is outstanding
C30_Witness ==
    \E r \in Runs :
        /\ pc[r] = "theme"
        /\ run[r].i = 2
        /\ progress.processedShows >= 1

(***************************************************************************)
(* SpecClear: imports started with the button, one after the other, and    *)
(* the button that empties the cache (part_000 line 630)                   *)
(***************************************************************************)
\* lines 423-427 (the later of the two declarations of clearCache, the one in
\* force), the confirm dialog answered with OK
clearCache ==
    /\ cache' = << >>
    /\ storedCache' = << >>
    /\ UNCHANGED <<cards, loading, error, progress, idsRef, cancelImportRef, storedCards, remote, settingVars, srsVars, deckVars, reviewVars, runVars, fetchVars>>

NextClear ==
    \/ ClickCharger
    \/ clearCache
    \/ \E r \in Runs : UserIdOk(r)
    \/ \E r \in Runs : UserIdFail(r)
    \/ \E r \in Runs : PageOk(r)
    \/ \E r \in Runs : PageFail(r)
    \/ \E r \in Runs : PageSleepDone(r)
    \/ \E r \in Runs : ThemeOk(r)
    \/ \E r \in Runs : ThemeFail(r)
    \/ \E r \in Runs : ItemSleepDone(r)

SpecClear == Init /\ [][NextClear]_vars

\* invocation r takes the openings of an entry from a cache in this step
\* (an entry with a title comes to its sleep without a request)
HitsCache(r) ==
    /\ BeginsEntry(r)
    /\ pc'[r] = "itemSleep"
    /\ NextVariant(Entry(run'[r]), 0) # 0

\* C29: clearCache takes effect at once, a run in progress included: an entry
\* is served as a cache hit only while Cache holds it, and a step adds to Cache
\* nothing but the entry a run has just resolved, so an entry cleared from
\* Cache is neither served nor written back.
C29_ClearCacheEffective ==
    [][/\ \A r \in Runs :
            HitsCache(r) => Entry(run'[r]).anilistId \in DOMAIN cache
       /\ \A id \in DOMAIN cache' :
            id \notin DOMAIN cache
               => \E r \in Runs : pc[r] = "theme" /\ Entry(run[r]).anilistId = id]_vars

(***************************************************************************)
(* Claims about the staging of cards                                       *)
(***************************************************************************)
\* C22: for every entry at most MAX_CARDS_PER_SERIES cards are staged and
\* committed, however many openings the theme index lists for it.
C22_AtMostMaxCardsPerShow ==
    [][\A r \in Runs :
          Processed(r)
             => Cardinality(run'[r].committed \ run[r].committed) <= MAX_CARDS_PER_SERIES]_vars

(***************************************************************************)
(* SpecIds: the card ids both imports give, over lists whose entries and   *)
(* order change from one import to the next                                *)
(***************************************************************************)
MaxShowId == 3
MaxCatalogLen == 2

\* the lists the list service may answer with: media ids, none twice
Catalogs ==
    {c \in UNION {[1..n -> 1..MaxShowId] : n \in 0..MaxCatalogLen} :
        \A j, k \in 1..Len(c) : c[j] = c[k] => j = k}

\* part_000 lines 311-339 for entry k of the list, its openings resolved
StageEntry ==
    /\ app = "part_000"
    /\ \E k \in 1..Len(catalog) :
          LET m  == Media(catalog[k])
              st == Stage(FirstYield(m), m, CardIdsOf(cards))
          IN cards' = IF Len(st.newCards) > 0 THEN dedupeById(cards \o st.newCards) ELSE cards
    /\ UNCHANGED <<cache, loading, error, progress, idsRef, cancelImportRef, storeVars, remote, runVars, fetchVars, settingVars, srsVars, catalog, currentCard, timers, reviewVars>>

\* App.jsx lines 158-209 for the whole list
AppBuildCards ==
    /\ app = "App.jsx"
    /\ LET entries == [k \in 1..Len(catalog) |-> AppMedia(catalog[k])]
       IN cards' = Slice(dedupeById(cards \o AppNewCards(entries).newCards), APP_DEFAULT_MAX_SHOWS)
    /\ UNCHANGED <<cache, loading, error, progress, idsRef, cancelImportRef, storeVars, remote, runVars, fetchVars, settingVars, srsVars, catalog, currentCard, timers, reviewVars>>

\* between two imports the user's list at AniList gets other entries or another order
ListChanges ==
    /\ catalog' \in Catalogs
    /\ catalog' # catalog
    /\ UNCHANGED <<uiVars, storeVars, remote, runVars, fetchVars, settingVars, srsVars, currentCard, timers, reviewVars>>

InitIds ==
    /\ cards = << >> /\ cache = << >> /\ loading = FALSE /\ error = NoError
    /\ progress = [totalShows |-> 0, processedShows |-> 0, totalOps |-> 0]
    /\ idsRef = {} /\ cancelImportRef = FALSE
    /\ storedCards = << >> /\ storedCache = << >>
    /\ remote = 0
    /\ pc = [r \in Runs |-> "idle"]
    /\ run = [r \in Runs |-> NewRun(<< >>)]
    /\ fpc = "idle" /\ attempt = 0 /\ backoff = 0 /\ lastStatus = 0 /\ nreq = 0 /\ nsleep = 0
    /\ lastHeader = [kind |-> "absent"]
    /\ InitSettings
    /\ app \in {"part_000", "App.jsx"}
    /\ srs = << >> /\ now = 0 /\ hist = << >> /\ start = << >>
    /\ catalog \in Catalogs
    /\ currentCard = << >> /\ timers = << >>
    /\ NoGrades

NextIds == StageEntry \/ AppBuildCards \/ ListChanges

SpecIds == InitIds /\ [][NextIds]_vars

\* the catalogId and the sequence number a card was made for
ShowOf(c) == c.id[1]
SequenceOf(c) == IF c.opNumber = 0 THEN 1 ELSE c.opNumber

\* cards made for the same catalogId and sequence number have the same id
SameShowSameId ==
    \A j, k \in 1..Len(cards) :
        (ShowOf(cards[j]) = ShowOf(cards[k]) /\ SequenceOf(cards[j]) = SequenceOf(cards[k]))
           => cards[j].id = cards[k].id

\* C21: the id of a card is catalogId + "::OP" + sequenceNumber (1 when the
\* theme has none) and nothing else: two cards made for the same catalogId and
\* sequence number have the same id, wherever the entry stood in the list and
\* whatever other entries the list held.
C21_IdFromCatalogIdAndSequence ==
    /\ \A k \in 1..Len(cards) :
          cards[k].id = << ShowOf(cards[k]), "::OP", SequenceOf(cards[k]) >>
    /\ SameShowSameId

(***************************************************************************)
(* SpecGrade: the grade handler of App.jsx on a deck of one card.  srs is  *)
(* the stored state of the card (srs[card.id]), currentCard the copy of    *)
(* the card a render put on screen, with the srs that render saw.          *)
(***************************************************************************)
\* line 343: the card as the deck of a render holds it, { ...c, srs: srs[c.id] || {} }
DeckCard(s) == [id |-> 1, srs |-> s]

\* App.jsx lines 306-332, then the render and the effect of lines 387-395: the
\* handler grades the card on screen; unless the video is hidden it leaves a
\* timer that holds the deck of the render the handler belongs to
AppGrade(quality, hideVideo) ==
    /\ app = "App.jsx"
    /\ currentCard # << >>
    /\ Len(hist) < MaxGrades
    /\ \E d \in Ticks :
          /\ now' = now + d
          /\ srs' = AppSm2Schedule(currentCard.srs, quality, easyDelayHours, diffAgain, now')
    /\ hist' = Append(hist, quality)
    /\ currentCard' = DeckCard(srs')
    /\ timers' = IF hideVideo THEN timers ELSE Append(timers, DeckCard(srs))
    /\ UNCHANGED <<uiVars, storeVars, remote, runVars, fetchVars, settingVars, app, start, catalog, reviewVars>>

\* lines 322-330: 500 ms later the callback puts a card of its deck on screen;
\* deck.all has not changed, so the effect of lines 387-395 does not run
TimerFires ==
    /\ timers # << >>
    /\ currentCard' = Head(timers)
    /\ timers' = Tail(timers)
    /\ UNCHANGED <<uiVars, storeVars, remote, runVars, fetchVars, settingVars, srsVars, catalog, reviewVars>>

\* the deck holds one card never graded, and the effect of lines 387-395 has
\* put it on screen
InitGrade ==
    /\ cards = << >> /\ cache = << >> /\ loading = FALSE /\ error = NoError
    /\ progress = [totalShows |-> 0, processedShows |-> 0, totalOps |-> 0]
    /\ idsRef = {} /\ cancelImportRef = FALSE
    /\ storedCards = << >> /\ storedCache = << >>
    /\ remote = 0
    /\ pc = [r \in Runs |-> "idle"]
    /\ run = [r \in Runs |-> NewRun(<< >>)]
    /\ fpc = "idle" /\ attempt = 0 /\ backoff = 0 /\ lastStatus = 0 /\ nreq = 0 /\ nsleep = 0
    /\ lastHeader = [kind |-> "absent"]
    /\ InitSettings
    /\ app = "App.jsx"
    /\ srs = << >> /\ now = 0 /\ hist = << >> /\ start = << >>
    /\ catalog = << >>
    /\ currentCard = DeckCard(<< >>)
    /\ timers = << >>
    /\ NoGrades

NextGrade ==
    \/ \E quality \in AppQualities, hideVideo \in BOOLEAN : AppGrade(quality, hideVideo)
    \/ TimerFires

SpecGrade == InitGrade /\ [][NextGrade]_vars

\* C26: a grade is computed from the state stored for the card when the
\* handler runs, whatever timers fired before: every grade adds one to the
\* stored attemptCount, so two grades in a row on the same card add two.
C26_GradesAccumulate ==
    [][hist' # hist
          => /\ srs' = AppSm2Schedule(srs, Graded, easyDelayHours, diffAgain, now')
             /\ Field(srs', "attempts", 0) = Field(srs, "attempts", 0) + 1]_vars

(***************************************************************************)
(* Claims about the card store during and after the entry loop             *)
(***************************************************************************)
\* invocation r is in its entry loop
InLoop(r) == pc[r] \in {"theme", "itemSleep"}

\* C31: the cards staged for the entries a run has processed are in the card
\* store when the run begins the resolution of its next entry, and while a run
\* is in its entry loop no step takes a card id out of the card store.
C31_CommittedIncrementally ==
    [][\A r \in Runs :
          /\ BeginsEntry(r) => run[r].committed \subseteq CardIdsOf(cards)
          /\ InLoop(r) => CardIdsOf(cards) \subseteq CardIdsOf(cards')]_vars

\* invocation r leaves its entry loop in this step, at its end or cancelled
LeavesLoop(r) ==
    /\ pc[r] # "done" /\ pc'[r] = "done"
    /\ run'[r].end \in {"completed", "cancelled"}

\* C32: when a run leaves its entry loop, at the end of the list or cancelled,
\* the whole card store is deduplicated: no id is left twice, no id is lost,
\* every card kept was in the store, and the stored copy follows; the run
\* reports 'nothing matched' when the store it leaves is empty and reports
\* nothing when the store holds cards, cards of earlier runs included.
C32_FinalDedupeAndNothingMatched ==
    [][\A r \in Runs :
          LeavesLoop(r)
             => /\ NoDuplicateIds(cards')
                /\ CardIdsOf(cards') = CardIdsOf(cards)
                /\ \A k \in 1..Len(cards') : \E j \in 1..Len(cards) : cards'[k] = cards[j]
                /\ storedCards' = cards'
                /\ Len(cards') = 0 => error' = NoOpenings
                /\ Len(cards') > 0 => error' = error]_vars

\* a second import of the same list has completed: everything came from the
\* cache, the run added no card, the cards of the first run are in the store
\* and no error is shown
C32_Witness ==
    /\ \A r \in Runs : pc[r] = "done" /\ run[r].end = "completed"
    /\ progress.totalOps = 0 /\ progress.processedShows = progress.totalShows
    /\ Len(cards) > 0
    /\ error = NoError

(***************************************************************************)
(* Claims about the four-grade policy of part_000                          *)
(***************************************************************************)
\* C35: in the four-grade policy a non-Again grade at repetitionCount 0
\* yields interval one day and repetitionCount 1, and a non-Again grade at
\* repetitionCount 1 yields interval six days and repetitionCount 2, whatever
\* the ease factor and the interval before.
C35_FirstIntervalsFixed ==
    [][(app = "part_000" /\ hist' # hist /\ Graded # Again)
          => /\ Field(srs, "reps", 0) = 0
                   => srs'.interval = ONE_DAY /\ srs'.reps = 1
             /\ Field(srs, "reps", 0) = 1
                   => srs'.interval = SIX_DAYS /\ srs'.reps = 2]_vars

\* Hard then Good from the default state: six days at an ease factor that is
\* no longer the default
C35_Witness ==
    /\ app = "part_000" /\ start = << >>
    /\ hist = << Hard, Good >>
    /\ srs.reps = 2 /\ srs.interval = SIX_DAYS
    /\ srs.ef # 250

(***************************************************************************)
(* SpecEase: the four-grade policy over grade sequences long enough for    *)
(* the ease factor to reach both of its limits (ef in hundredths)          *)
(***************************************************************************)
MaxEaseGrades == 8

\* part_000 line 365, one grade after the other without a pause
Sm2StepLong(quality) == Sm2Call(quality, MaxEaseGrades, {0})

InitEase ==
    /\ cards = << >> /\ cache = << >> /\ loading = FALSE /\ error = NoError
    /\ progress = [totalShows |-> 0, processedShows |-> 0, totalOps |-> 0]
    /\ idsRef = {} /\ cancelImportRef = FALSE
    /\ storedCards = << >> /\ storedCache = << >>
    /\ remote = 0
    /\ pc = [r \in Runs |-> "idle"]
    /\ run = [r \in Runs |-> NewRun(<< >>)]
    /\ fpc = "idle" /\ attempt = 0 /\ backoff = 0 /\ lastStatus = 0 /\ nreq = 0 /\ nsleep = 0
    /\ lastHeader = [kind |-> "absent"]
    /\ InitSettings
    /\ NoReview
    /\ NoDeck
    /\ NoGrades

NextEase == \E quality \in Qualities : Sm2StepLong(quality)

SpecEase == InitEase /\ [][NextEase]_vars

Easy == 3

\* C37: from the default state (ef 2.5) the ease factor of the four-grade
\* policy stays within [1.3, 2.8] after every grade: Again lowers it by 0.2
\* and Hard by 0.14, neither below 1.3, Good leaves it as it is, Easy raises
\* it by 0.1, not above 2.8.
C37_EaseFactorBounded ==
    /\ [](Field(srs, "ef", 250) >= 130 /\ Field(srs, "ef", 250) <= 280)
    /\ [][hist' # hist
            => srs'.ef =
                 CASE Graded = Again -> Max(130, Field(srs, "ef", 250) - 20)
                   [] Graded = Hard  -> Max(130, Field(srs, "ef", 250) - 14)
                   [] Graded = Good  -> Field(srs, "ef", 250)
                   [] Graded = Easy  -> Min(280, Field(srs, "ef", 250) + 10)]_vars

\* the seventh grade is an Easy at ef 2.8: the upper limit holds it back
C37_Witness ==
    /\ hist = << Easy, Easy, Easy, Again, Easy, Easy, Easy >>
    /\ srs.ef = 280

(***************************************************************************)
(* SpecDedupe: dedupeById (part_000 lines 82-86, App.jsx lines 72-76: the  *)
(* same code) called on lists with repeated ids.  A record is its id and   *)
(* v, which stands for the rest of its fields.                             *)
(***************************************************************************)
MaxDedupeLen == 4
DedupeRecords == [id : 1..2, v : 1..2]

DedupeInputs == UNION {[1..n -> DedupeRecords] : n \in 0..MaxDedupeLen}

\* setCards(dedupeById(arr)) as in part_000 lines 339 and 348-354, and the
\* cards effect of line 158
DedupeCall(a) ==
    /\ arg' = [arr |-> a]
    /\ cards' = dedupeById(a)
    /\ storedCards' = cards'
    /\ UNCHANGED <<cache, loading, error, progress, idsRef, cancelImportRef, storedCache, remote, runVars, fetchVars, settingVars, srsVars, deckVars, srsById, storedSrs, lastGrade>>

NextDedupe == \E a \in DedupeInputs : DedupeCall(a)

\* nothing imported, no helper called
InitDedupe == Init /\ remote = 0

SpecDedupe == InitDedupe /\ [][NextDedupe]_vars

\* the position of the last record of arr with the id
LastOf(arr, id) ==
    CHOOSE j \in 1..Len(arr) :
        arr[j].id = id /\ \A k \in (j + 1)..Len(arr) : arr[k].id # id

\* C36: the result of dedupeById holds the ids of its argument and no other,
\* each once; the record it holds for an id is the last one of that id in the
\* argument; applied to its own result it returns that result.
C36_DedupeKeepsLast ==
    arg # << >> =>
        /\ CardIdsOf(cards) = CardIdsOf(arg.arr)
        /\ NoDuplicateIds(cards)
        /\ \A k \in 1..Len(cards) : cards[k] = arg.arr[LastOf(arg.arr, cards[k].id)]
        /\ dedupeById(cards) = cards

\* id 1 came twice with different fields: the later record is the one kept
C36_Witness ==
    /\ arg # << >>
    /\ arg.arr = << [id |-> 1, v |-> 1], [id |-> 2, v |-> 1], [id |-> 1, v |-> 2] >>
    /\ cards = << [id |-> 1, v |-> 2], [id |-> 2, v |-> 1] >>

(***************************************************************************)
(* SpecSave: saveCards of App.jsx (lines 49-55) called on collections      *)
(* shorter and longer than DEFAULT_MAX_SHOWS, over a stored blob that is   *)
(* or is not above the purge threshold.                                    *)
(***************************************************************************)
MaxSaveOver == 2
MaxSaveBase == 7

\* n cards of ids base + 1 .. base + n
SaveInput(base, n) == [k \in 1..n |-> [id |-> base + k]]

SaveLengths == 0..2 \cup (APP_DEFAULT_MAX_SHOWS - 2)..(APP_DEFAULT_MAX_SHOWS + MaxSaveOver)

SaveCall(base, n) ==
    /\ \E large \in Oversize(storedCards) :
          /\ arg' = [cs |-> SaveInput(base, n), large |-> large]
          /\ storedCards' = saveCards(storedCards, large, SaveInput(base, n))
    /\ UNCHANGED <<uiVars, storedCache, remote, runVars, fetchVars, settingVars, srsVars, deckVars, srsById, storedSrs, lastGrade>>

NextSave == \E base \in 0..MaxSaveBase, n \in SaveLengths : SaveCall(base, n)

\* nothing stored, no helper called
InitSave == Init /\ remote = 0

SpecSave == InitSave /\ [][NextSave]_vars

\* C38: after saveCards(cs) the persisted collection is the first
\* DEFAULT_MAX_SHOWS records of cs, whether or not the purge of line 52 was
\* taken: it never holds more than 1000 cards and misses none of the first 1000.
C38_SaveCardsWritesFirst1000 ==
    arg # << >> =>
        /\ storedCards = SubSeq(arg.cs, 1, Min(Len(arg.cs), APP_DEFAULT_MAX_SHOWS))
        /\ Len(storedCards) <= APP_DEFAULT_MAX_SHOWS

\* the purge was taken on a call with more than 1000 cards
C38_Witness ==
    /\ arg # << >>
    /\ arg.large
    /\ Len(arg.cs) > APP_DEFAULT_MAX_SHOWS
    /\ Len(storedCards) = APP_DEFAULT_MAX_SHOWS
    /\ storedCards[APP_DEFAULT_MAX_SHOWS] = arg.cs[APP_DEFAULT_MAX_SHOWS]

(***************************************************************************)
(* SpecStore: App.jsx with its import and its review handlers together:    *)
(* cards and the schedule map srs (srsById), the blobs of both in          *)
(* localStorage (storedCards, storedSrs), the undo record lastGrade.  The  *)
(* video is hidden (line 313), so that no timer of lines 322-330 is left   *)
(* and the card on screen is the one the effect of lines 387-395 drew from *)
(* the deck of the latest render.                                          *)
(***************************************************************************)
\* line 342: srs[c.id] || {}; line 308: srs[currentCard.id], undefined when absent
SrsOf(m, id) == IF id \in DOMAIN m THEN m[id] ELSE << >>

\* { ...s, [id]: v }; a value of undefined is no entry (it is not serialised,
\* and line 342 reads it as absent)
WithSrs(m, id, v) ==
    IF v = << >> THEN [x \in DOMAIN m \ {id} |-> m[x]] ELSE (id :> v) @@ m

\* App.jsx lines 306-320: the card on screen is some card of the deck
grade(quality) ==
    /\ Len(hist) < MaxGrades
    /\ \E k \in 1..Len(cards) :
          LET id      == cards[k].id
              prevSrs == SrsOf(srsById, id)
          IN /\ lastGrade' = [id |-> id, prevSrs |-> prevSrs]
             /\ srsById' = WithSrs(srsById, id,
                                   AppSm2Schedule(prevSrs, quality, easyDelayHours, diffAgain, now))
    /\ hist' = Append(hist, quality)
    /\ UNCHANGED <<uiVars, storeVars, remote, runVars, fetchVars, settingVars, app, srs, now, start, deckVars, storedSrs, arg>>

\* lines 334-339
undoGrade ==
    /\ lastGrade # << >>
    /\ srsById' = WithSrs(srsById, lastGrade.id, lastGrade.prevSrs)
    /\ lastGrade' = << >>
    /\ UNCHANGED <<uiVars, storeVars, remote, runVars, fetchVars, settingVars, srsVars, deckVars, storedSrs, arg>>

\* lines 485-491: the reset button, confirmed
ResetStats ==
    /\ srsById' = << >>
    /\ storedSrs' = << >>
    /\ UNCHANGED <<uiVars, storeVars, remote, runVars, fetchVars, settingVars, srsVars, deckVars, lastGrade, arg>>

InitStore ==
    /\ cards = << >> /\ cache = << >> /\ loading = FALSE /\ error = NoError
    /\ progress = [totalShows |-> 0, processedShows |-> 0, totalOps |-> 0]
    /\ idsRef = {} /\ cancelImportRef = FALSE
    /\ storedCards = << >> /\ storedCache = << >>
    /\ remote \in 0..MaxAnime
    /\ pc = [r \in Runs |-> "idle"]
    /\ run = [r \in Runs |-> AppRun(<< >>, FALSE)]
    /\ fpc = "idle" /\ attempt = 0 /\ backoff = 0 /\ lastStatus = 0 /\ nreq = 0 /\ nsleep = 0
    /\ lastHeader = [kind |-> "absent"]
    /\ InitSettings
    /\ app = "App.jsx"
    /\ srs = << >> /\ now = 0 /\ hist = << >> /\ start = << >>
    /\ NoDeck
    /\ NoGrades

NextStore ==
    \/ ClickImporter
    \/ \E r \in Runs : AppListOk(r)
    \/ \E r \in Runs : AppListFail(r)
    \/ \E quality \in AppQualities : grade(quality)
    \/ undoGrade
    \/ ResetStats

SpecStore == InitStore /\ [][NextStore]_vars

\* a step of an import run: an invocation moves
ImportStep == \E r \in Runs : pc'[r] # pc[r]

\* a grade event: a card was graded in this step
GradeEvent == hist' # hist

\* an import step leaves the schedule map unchanged; a grade event changes no
\* entry but that of the graded card, and neither the cards nor the cache
ImportAndGradeFrames ==
    /\ ImportStep => srsById' = srsById
    /\ GradeEvent =>
          /\ cards' = cards /\ cache' = cache
          /\ storedCards' = storedCards /\ storedCache' = storedCache
          /\ \A id \in (DOMAIN srsById \cup DOMAIN srsById') \ {lastGrade'.id} :
                SrsOf(srsById', id) = SrsOf(srsById, id)

\* C33: an import step leaves the schedule map unchanged; a grade event
\* changes no entry of the schedule map but that of the graded card and leaves
\* the card store and the cache (stored copies included) unchanged; an entry
\* the schedule map did not hold is created by a grade event only, for the
\* graded card.
C33_MutatedByOwnerOnly ==
    [][/\ ImportAndGradeFrames
       /\ \A id \in DOMAIN srsById' \ DOMAIN srsById :
             GradeEvent /\ lastGrade'.id = id]_vars

\* the frames alone, whatever creates an entry
FramesOnly == [][ImportAndGradeFrames]_vars

ScheduleBlobMirrors == storedSrs = srsById

CardsBlobMirrors == storedCards = cards

\* C34: every persisted blob equals the aggregate it mirrors once the writes
\* of a handler have run: the schedule map, the theme cache and the card
\* collection (the settings blob is not part of the state).
C34_BlobsMirrorMemory ==
    /\ ScheduleBlobMirrors
    /\ storedCache = cache
    /\ CardsBlobMirrors

====
